---- MODULE Spec2Model ----
(***************************************************************************)
(* A model of tmetric-minimal-mcp: the TMetricClient of                    *)
(* src/src/tmetric-client.ts talking to the remote time-tracking service.  *)
(* A call of a public method is an invocation.  It runs from one await of  *)
(* a remote call to the next: a step of the model is the start of an       *)
(* invocation up to the first request it sends, or the answer to the       *)
(* request in flight followed by the code that runs on it, up to the next  *)
(* request or to the return.  The clock and the other writers of the       *)
(* account move between the steps, and two invocations may overlap.        *)
(*                                                                         *)
(* Time is an instant in milliseconds since the epoch.  A timestamp string *)
(* is modelled by what it says: the wall-clock reading it spells and       *)
(* whether it carries the "Z" suffix.                                      *)
(***************************************************************************)
EXTENDS Integers, Sequences, FiniteSets, TLC

VARIABLES
    accountId,   \* TMetricClient.accountId ("" is null)
    entries,     \* the service's time entries, in the order it lists them
    nextId,      \* the id the service gives the next entry it creates
    now,         \* the clock, ms since the epoch (Date.now())
    tz,          \* Date.prototype.getTimezoneOffset(): minutes, UTC - local
    op,          \* the invocation that returned last: its name, arguments, fault and instants
    readList,    \* its read of today's entries: whether it answered, and with what
    requests,    \* the remote requests it issued, in order
    result,      \* what it returned (or threw)
    response,    \* what the tool handler answered for it
    prev,        \* where the run stood before it (see Chain)
    steps,       \* invocations begun and clock steps taken so far
    procs        \* the invocations in flight: for each of two callers, where its call stands

vars == <<accountId, entries, nextId, now, tz, op, readList, requests, result, response, prev,
          steps, procs>>

----------------------------------------------------------------------------
(* Bounds of the model *)

MaxSteps == 3        \* invocations and clock steps in one run, remote calls failing
MaxQuietSteps == 6   \* invocations and clock steps in one run, no remote call failing

(* Program constants *)

MsPerMinute == 60000
MsPerHour == 60 * MsPerMinute
MsPerDay == 24 * 60 * MsPerMinute
SafetyWindowMinutes == 5

(* The run starts three minutes before a UTC midnight, so that the UTC date *)
(* and the local date can differ and the clock can pass the midnight.       *)
InitNow == 2 * MsPerDay - 3 * MsPerMinute
ClockSteps == {210000}
\* An invocation takes time: the clock has moved on by a second when it has returned.
Tick == MsPerMinute \div 60
TzOffsets == {0, -120}

NoAccount == ""
ServiceAccount == "acct-1"
\* Another account of the same user, with no entries in it.
OtherAccount == "acct-2"
ProjectIds == {7}
TaskNames == {"Fix bug"}

----------------------------------------------------------------------------
(* Timestamps *)

NullTime == [set |-> FALSE, wall |-> 0, utc |-> FALSE]
LocalStamp(w) == [set |-> TRUE, wall |-> w, utc |-> FALSE]

\* new Date(s).getTime() / parseISO(s).getTime(): a string with no zone is
\* read as local time, one that ends in Z as UTC.
ParseInstant(ts) == IF ts.utc THEN ts.wall ELSE ts.wall + tz * MsPerMinute

\* new Date().toISOString().split('T')[0]: the UTC calendar date, as a day number.
TodayParam(t) == t \div MsPerDay

\* The local calendar date of an instant.
LocalDate(t) == (t - tz * MsPerMinute) \div MsPerDay

\* A faulty variant: now.toISOString().slice(0, -1), the UTC reading with no suffix.
UtcEndTime(t) == LocalStamp(t)

\* new Date(now.getTime() - now.getTimezoneOffset() * 60000).toISOString().slice(0, -1)
LocalEndTime(t) == LocalStamp(t - tz * MsPerMinute)

----------------------------------------------------------------------------
(* Task URLs and the issue-link formatter (src/src/utils.ts) *)

\* A URL text by what the functions read of it: whether new URL() parses it
\* (valid), the protocol and the host it then has (the host as the pieces it
\* is spelt from), and the number after "issues/" in the text, -1 when the
\* text has none.  given is FALSE for an argument left out.
Url(valid, scheme, host, issue) ==
    [given |-> TRUE, valid |-> valid, scheme |-> scheme, host |-> host, issue |-> issue]
NoUrl == [given |-> FALSE, valid |-> FALSE, scheme |-> "", host |-> <<>>, issue |-> -1]
IssueUrl == Url(TRUE, "https:", <<"gitlab.example.com">>, 42)
TaskUrls == {IssueUrl}

\* The argument as a caller may give it: left out, a GitLab issue URL,
\* https://github.com/u/r/issues/7, http://gist.github.com/issues/3,
\* https://github.company.org/r/issues/5 (the host text holds "github.com"),
\* https://gitlab.example.com/g/p (no issue), "not-a-valid-url", and
\* "group/project/issues/42" (no URL, yet "issues/42" is in the text).
ArgUrls ==
    {NoUrl, IssueUrl,
     Url(TRUE, "https:", <<"github.com">>, 7),
     Url(TRUE, "http:", <<"gist.", "github.com">>, 3),
     Url(TRUE, "https:", <<"github.com", "pany.org">>, 5),
     Url(TRUE, "https:", <<"gitlab.example.com">>, -1),
     Url(FALSE, "", <<>>, -1),
     Url(FALSE, "", <<>>, 42)}

NoLink == [set |-> FALSE, link |-> NoUrl, issueId |-> <<>>]
NoIntegration == [set |-> FALSE, url |-> <<>>, type |-> ""]

\* issueUrl.match(/issues\/(\d+)/)
extractIssueNumber(url) == url.issue

\* url.host.includes('github.com')
HostIncludes(host, text) == \E i \in 1..Len(host) : host[i] = text

detectIntegrationType(url) ==
    IF url.valid /\ HostIncludes(url.host, "github.com") THEN "GitHub" ELSE "GitLab"

\* `${url.protocol}//${url.host}`
extractBaseUrl(url) ==
    IF url.valid THEN <<url.scheme, "//">> \o url.host ELSE <<"https://gitlab.com">>

formatIssueId(issueNumber, integrationType) ==
    <<integrationType, " Issue: #", issueNumber>>

----------------------------------------------------------------------------
(* Time entries (TMetricTimeEntry) *)

NoTask == [name |-> "", externalLink |-> NoLink, integration |-> NoIntegration]
NoEntry == [id |-> 0, startTime |-> NullTime, endTime |-> NullTime, projectId |-> 0,
            task |-> NoTask, note |-> "", tags |-> <<>>]

IsRunning(e) == ~e.endTime.set

\* The service's name for a project id.
ProjectName(pid) == IF pid = 0 THEN "" ELSE "Project"

----------------------------------------------------------------------------
(* The remote service, as the client consumes it *)

RunningCount(list) == Cardinality({i \in 1..Len(list) : IsRunning(list[i])})

\* GET /accounts/{id}/timeentries?startDate=d&endDate=d: the entries whose
\* startTime, as the service writes it, falls on the date d.
ServiceList(d) == SelectSeq(entries, LAMBDA e : e.startTime.wall \div MsPerDay = d)

\* The same for any account: only ServiceAccount holds entries.
AccountList(acc, d) == IF acc = ServiceAccount THEN ServiceList(d) ELSE <<>>

InsertAt(list, pos, e) == SubSeq(list, 1, pos - 1) \o <<e>> \o SubSeq(list, pos, Len(list))

\* POST /accounts/{id}/timeentries: startTime null means "now"; the service
\* writes times as local time with no zone suffix.
ServiceCreated(body) ==
    [id |-> nextId, startTime |-> LocalStamp(now - tz * MsPerMinute), endTime |-> body.endTime,
     projectId |-> body.projectId, task |-> body.task, note |-> "", tags |-> body.tags]

\* PUT /accounts/{id}/timeentries/{entryId}: the body replaces the entry.
ServiceUpdated(list, id, body) ==
    [i \in 1..Len(list) |->
        IF list[i].id = id
        THEN [id |-> id, startTime |-> body.startTime, endTime |-> body.endTime,
              projectId |-> body.projectId, task |-> body.task, note |-> body.note,
              tags |-> body.tags]
        ELSE list[i]]

\* DELETE /accounts/{id}/timeentries/{entryId}
ServiceDeleted(list, id) == SelectSeq(list, LAMBDA e : e.id # id)

ServiceProjects == <<[id |-> 7, name |-> "Project"]>>

(* Requests *)

NoBody == [none |-> TRUE]
Request(method, resource, acc, date, id, body) ==
    [method |-> method, resource |-> resource, acc |-> acc, date |-> date, id |-> id,
     body |-> body]

\* The remote call of an invocation that fails, if any: the profile read, the
\* read of entries or projects, the mutating call before the service applied
\* it, or the mutating call after (the response is lost).  "userEmpty" is a
\* profile read that answers with no activeAccountId: the request sent for
\* the account that follows names no account, and the service refuses it.
FailPoints == {"none", "user", "userEmpty", "read", "write", "writeLost"}

\* "userOther" is a profile read that answers with the user's other account.
ProfileAnswers == {"none", "user", "userEmpty", "userOther"}

\* The error.message axios reports for each.
ErrText(fail) ==
    CASE fail = "user" -> "Request failed with status code 401"
      [] fail = "userEmpty" -> "Request failed with status code 404"
      [] fail = "read" -> "Network Error"
      [] fail = "write" -> "Request failed with status code 500"
      [] fail = "writeLost" -> "timeout of 0ms exceeded"
      [] OTHER -> ""

----------------------------------------------------------------------------
(* JavaScript arithmetic *)

\* Math.trunc(a / b) for b > 0: the quotient rounded toward zero.
Trunc(a, b) == IF a >= 0 THEN a \div b ELSE -((-a) \div b)

\* a % b for b > 0: the remainder takes the sign of a.
Rem(a, b) == IF a >= 0 THEN a % b ELSE -((-a) % b)

(* src/src/utils.ts: durations *)

\* intervalToDuration counts whole hours and whole minutes toward zero, keeps
\* the hours within the day and the minutes within the hour; the days it
\* counts are not used.
calculateElapsed(startTime) ==
    LET diff == now - ParseInstant(startTime)
        hours == Rem(Trunc(diff, MsPerHour), 24)
        minutes == Rem(Trunc(diff, MsPerMinute), 60)
    IN  IF hours > 0 THEN <<hours, "h ", minutes, "m">> ELSE <<minutes, "m">>

calculateDurationMinutes(startTime, endTime) ==
    (ParseInstant(endTime) - ParseInstant(startTime)) \div MsPerMinute

\* A faulty variant: the hours kept within the day.
formatMinutesFolded(minutes) ==
    LET hours == (minutes \div 60) % 24
        mins == Rem(minutes, 60)
    IN  IF hours > 0 /\ mins > 0 THEN <<hours, "h", mins, "m">>
        ELSE IF hours > 0 THEN <<hours, "h">>
        ELSE <<mins, "m">>

formatMinutesToGitLab(minutes) ==
    LET hours == minutes \div 60
        mins == Rem(minutes, 60)
    IN  IF hours > 0 /\ mins > 0 THEN <<hours, "h", mins, "m">>
        ELSE IF hours > 0 THEN <<hours, "h">>
        ELSE <<mins, "m">>

----------------------------------------------------------------------------
(* src/src/tmetric-client.ts: the account resolution *)

ProfileRequest == Request("GET", "user", NoAccount, -1, 0, NoBody)

\* A client that reads the profile before every operation.
ensureInitializedAlways(acc) == <<ProfileRequest>>

\* if (!this.accountId) await this.initialize(): the request it sends, if any
ensureInitialized(acc) == IF acc # NoAccount THEN <<>> ELSE <<ProfileRequest>>

\* response.data.activeAccountId of each answer
ActiveAccountId(answer) ==
    CASE answer = "userEmpty" -> NoAccount
      [] answer = "userOther" -> OtherAccount
      [] OTHER -> ServiceAccount

\* A faulty variant: a resolution on a client already resolved clears it.
assignAccountOnce(current, activeAccountId) ==
    IF current # NoAccount THEN NoAccount ELSE activeAccountId

\* this.accountId = response.data.activeAccountId
assignAccount(current, activeAccountId) == activeAccountId

\* A faulty variant: a failed resolution leaves a marker in accountId.
initializeSticky(acc, answer) ==
    IF answer = "user" THEN "unresolved" ELSE assignAccount(acc, ActiveAccountId(answer))

\* initialize() once GET /user has answered: accountId afterwards.  A read
\* that fails throws and leaves it as it was.
initialize(acc, answer) ==
    IF answer = "user" THEN acc ELSE assignAccount(acc, ActiveAccountId(answer))

InitError(txt) == <<"Failed to initialize TMetric client: ", txt>>

----------------------------------------------------------------------------
(* src/src/tmetric-client.ts: the private helpers, from the answer to their *)
(* read of today's entries on.  read is that answer (ok is FALSE when the   *)
(* request failed, and txt is then the text of the failure).                *)

NoRead == [ok |-> FALSE, list |-> <<>>]

\* this.client.get(`/accounts/${this.accountId}/timeentries`, {startDate: today, endDate: today})
TodayRequest(acc) == Request("GET", "timeentries", acc, TodayParam(now), 0, NoBody)

\* A client that keeps the list it read last and answers from it.
readTodayCached(acc, date) ==
    IF readList.ok THEN readList ELSE [ok |-> TRUE, list |-> AccountList(acc, date)]

\* response.data of the read of today's entries
readToday(acc, date) == [ok |-> TRUE, list |-> AccountList(acc, date)]

\* Faulty variants of the search for the active entry: one that finds none,
\* one that takes the first entry without looking at its endTime.
NeverActive(list) == NoEntry
AnyEntry(list) == IF Len(list) > 0 THEN list[1] ELSE NoEntry

\* A faulty variant: the last entry with no endTime instead of the first.
FindLastActive(list) ==
    IF \E i \in 1..Len(list) : IsRunning(list[i])
    THEN list[CHOOSE i \in 1..Len(list) :
                 IsRunning(list[i]) /\ \A j \in (i + 1)..Len(list) : ~IsRunning(list[j])]
    ELSE NoEntry

\* response.data.find(entry => entry.endTime === null) || null
FindActive(list) ==
    IF \E i \in 1..Len(list) : IsRunning(list[i])
    THEN list[CHOOSE i \in 1..Len(list) :
                 IsRunning(list[i]) /\ \A j \in 1..(i - 1) : ~IsRunning(list[j])]
    ELSE NoEntry

getActiveTimeEntry(read, txt) ==
    [ok |-> read.ok, err |-> IF read.ok THEN <<>> ELSE <<txt>>,
     entry |-> IF read.ok THEN FindActive(read.list) ELSE NoEntry]

\* A faulty variant of the comparator: a.startTime - b.startTime, oldest first.
StartsNoEarlier(b, a) == ParseInstant(b.startTime) >= ParseInstant(a.startTime)

\* The comparator of the sort: b.startTime - a.startTime <= 0 keeps a before b.
StartsNoLater(b, a) == ParseInstant(b.startTime) <= ParseInstant(a.startTime)

\* Array.prototype.sort is stable: an entry goes after every entry that starts
\* no earlier than it does.
RECURSIVE SortByStartDesc(_)
SortByStartDesc(list) ==
    IF Len(list) <= 1 THEN list
    ELSE LET Place(front, e) ==
               InsertAt(front,
                        Cardinality({i \in 1..Len(front) : StartsNoLater(e, front[i])}) + 1, e)
         IN  Place(SortByStartDesc(SubSeq(list, 1, Len(list) - 1)), list[Len(list)])

\* A faulty variant: with nothing listed for today it falls back on the
\* account's latest entry of any day.
getLastTimeEntryAnyDay(read, txt) ==
    [ok |-> read.ok, err |-> IF read.ok THEN <<>> ELSE <<txt>>,
     entry |-> IF read.ok /\ Len(read.list) > 0 THEN SortByStartDesc(read.list)[1]
               ELSE IF read.ok /\ Len(entries) > 0 THEN SortByStartDesc(entries)[1]
               ELSE NoEntry]

getLastTimeEntry(read, txt) ==
    [ok |-> read.ok, err |-> IF read.ok THEN <<>> ELSE <<txt>>,
     entry |-> IF read.ok /\ Len(read.list) > 0 THEN SortByStartDesc(read.list)[1]
               ELSE NoEntry]

NotRunning == [is_running |-> FALSE]

\* activeEntry.task?.name || activeEntry.note || 'No description'
CurrentTaskName(e) ==
    IF e.task.name # "" THEN e.task.name
    ELSE IF e.note # "" THEN e.note
    ELSE "No description"

TimerInfo(e) ==
    [is_running |-> TRUE,
     timer_id |-> e.id,
     task_name |-> CurrentTaskName(e),
     task_url |-> e.task.externalLink.link,
     project_name |-> IF ProjectName(e.projectId) # "" THEN ProjectName(e.projectId)
                      ELSE "No project",
     project_id |-> e.projectId,
     started_at |-> e.startTime,
     elapsed |-> calculateElapsed(e.startTime)]

CurrentTimerError == "Failed to get current timer: "

\* A faulty variant: a read that failed is taken for "no timer running".
getCurrentTimerFailOpen(read, txt) ==
    LET Project(a) ==
          [threw |-> FALSE, err |-> <<>>,
           info |-> IF a.entry.id = 0 THEN NotRunning ELSE TimerInfo(a.entry)]
    IN  Project(getActiveTimeEntry(read, txt))

\* getCurrentTimer() from the answer on: threw is TRUE when it throws, and
\* err is then the message.
getCurrentTimer(read, txt) ==
    LET Project(a) ==
          IF ~a.ok
          THEN [threw |-> TRUE, err |-> <<CurrentTimerError>> \o a.err, info |-> NotRunning]
          ELSE [threw |-> FALSE, err |-> <<>>,
                info |-> IF a.entry.id = 0 THEN NotRunning ELSE TimerInfo(a.entry)]
    IN  Project(getActiveTimeEntry(read, txt))

\* A faulty variant: the message without the text of the underlying error.
ApiErrorBare(prefix, err) ==
    [success |-> FALSE, error |-> "API_ERROR", message |-> <<prefix>>]

ApiError(prefix, err) ==
    [success |-> FALSE, error |-> "API_ERROR", message |-> <<prefix>> \o err]

----------------------------------------------------------------------------
(* src/src/tmetric-client.ts: the public methods, each from one await to   *)
(* the next.  A stretch of code either returns a result or sends a request *)
(* and awaits its answer; then is what it has ready for after the answer.   *)

Return(res) == [returns |-> TRUE, result |-> res]
Await(req, then) == [returns |-> FALSE, request |-> req, then |-> then]

ListProjectsError == "Failed to list projects: "
StartTimerError == "Failed to start timer: "
StopTimerError == "Failed to stop timer: "
DeleteEntryError == "Failed to delete entry: "

\* listProjects() after ensureInitialized()
listProjectsCall(acc) == Await(Request("GET", "projects", acc, -1, 0, NoBody), [none |-> TRUE])

\* listProjects() from the answer on
listProjectsAnswered(read, txt) ==
    IF ~read.ok THEN Return(ApiError(ListProjectsError, <<txt>>))
    ELSE Return([success |-> TRUE, projects |-> read.list])

\* getCurrentTimer() called as a tool, from the answer on
getCurrentTimerAnswered(read, txt) ==
    LET Answer(current) ==
          IF current.threw THEN Return([thrown |-> TRUE, message |-> current.err])
          ELSE Return(current.info)
    IN  Answer(getCurrentTimer(read, txt))

\* A faulty variant: the task is created without its name.
StartTaskUnnamed(taskName, taskUrl) ==
    [name |-> "", externalLink |-> NoLink, integration |-> NoIntegration]

\* The task object startTimer builds from its arguments.
StartTask(taskName, taskUrl) ==
    LET issueNumber == extractIssueNumber(taskUrl)
        baseUrl == extractBaseUrl(taskUrl)
        integrationType == detectIntegrationType(taskUrl)
    IN  IF taskUrl.given /\ issueNumber # -1
        THEN [name |-> taskName,
              externalLink |-> [set |-> TRUE, link |-> taskUrl,
                                issueId |-> formatIssueId(issueNumber, integrationType)],
              integration |-> [set |-> TRUE, url |-> baseUrl, type |-> integrationType]]
        ELSE [name |-> taskName, externalLink |-> NoLink, integration |-> NoIntegration]

\* startTimer() from the answer to getCurrentTimer() up to the create call
startTimerChecked(projectId, taskName, taskUrl, acc, current) ==
    IF current.threw
    THEN Return(ApiError(StartTimerError, current.err))
    ELSE IF current.info.is_running
    THEN Return([success |-> FALSE, error |-> "TIMER_ALREADY_RUNNING",
                 message |-> <<"Cannot start new timer. A timer is already running.">>,
                 current_timer |-> current.info])
    ELSE Await(Request("POST", "timeentries", acc, -1, 0,
                       [startTime |-> NullTime, endTime |-> NullTime, projectId |-> projectId,
                        task |-> StartTask(taskName, taskUrl), tags |-> <<>>]),
               [task_name |-> taskName])

\* startTimer() from the answer to the create call on: created is response.data
startTimerCreated(taskName, created) ==
    [success |-> TRUE, timer_id |-> created.id, started_at |-> created.startTime,
     task_name |-> taskName]

\* activeEntry.task?.name || 'Unknown task'
StoppedTaskName(e) == IF e.task.name # "" THEN e.task.name ELSE "Unknown task"

\* A faulty variant: of the task only the name is sent back.
UpdateDataNameOnly(e, endTime) ==
    [startTime |-> e.startTime, endTime |-> endTime, projectId |-> e.projectId,
     tags |-> e.tags,
     task |-> [name |-> e.task.name, externalLink |-> NoLink, integration |-> NoIntegration],
     note |-> IF e.task.name = "" THEN e.note ELSE ""]

\* The body stopTimer sends: the task when it has a name, otherwise the note.
UpdateData(e, endTime) ==
    [startTime |-> e.startTime, endTime |-> endTime, projectId |-> e.projectId,
     tags |-> e.tags,
     task |-> IF e.task.name # "" THEN e.task ELSE NoTask,
     note |-> IF e.task.name = "" THEN e.note ELSE ""]

\* stopTimer() from the answer to the update call on
stopTimerUpdated(activeEntry, endTime, durationMinutes) ==
    [success |-> TRUE,
     time_spent |-> formatMinutesToGitLab(durationMinutes),
     time_spent_minutes |-> durationMinutes,
     started_at |-> activeEntry.startTime,
     ended_at |-> endTime,
     task_name |-> StoppedTaskName(activeEntry)]

\* stopTimer() from the answer to getActiveTimeEntry() up to the update call
stopTimerFound(acc, active) ==
    LET Update(activeEntry, endTime) ==
          Await(Request("PUT", "timeentries", acc, -1, activeEntry.id,
                        UpdateData(activeEntry, endTime)),
                stopTimerUpdated(activeEntry, endTime,
                                 calculateDurationMinutes(activeEntry.startTime, endTime)))
    IN  IF ~active.ok
        THEN Return(ApiError(StopTimerError, active.err))
        ELSE IF active.entry.id = 0
        THEN Return([success |-> FALSE, error |-> "NO_TIMER_RUNNING",
                     message |-> <<"No active timer to stop">>])
        ELSE Update(active.entry, LocalEndTime(now))

\* A faulty variant: the minutes rounded to the nearest instead of floored.
MinutesAgoRounded(endTime) ==
    (now - ParseInstant(endTime) + MsPerMinute \div 2) \div MsPerMinute

\* Math.floor((now.getTime() - endTime.getTime()) / (1000 * 60))
MinutesAgo(endTime) == (now - ParseInstant(endTime)) \div MsPerMinute

InvalidMode ==
    [success |-> FALSE, error |-> "INVALID_MODE", message |-> <<"Invalid deletion mode">>]

\* deleteTimeEntry() from the guard on targetId and entryType up to the delete call
deleteTimeEntryPerform(acc, targetId, entryType, stoppedAgo) ==
    IF targetId = 0 \/ entryType = ""
    THEN Return(InvalidMode)
    ELSE Await(Request("DELETE", "timeentries", acc, -1, targetId, NoBody),
               [success |-> TRUE, deleted |-> targetId, entry_type |-> entryType,
                stopped_ago |-> stoppedAgo])

\* deleteTimeEntry('current') from the answer to getCurrentTimer() on
deleteTimeEntryCurrent(acc, current) ==
    IF current.threw
    THEN Return(ApiError(DeleteEntryError, current.err))
    ELSE IF ~current.info.is_running
    THEN Return([success |-> FALSE, error |-> "NO_TIMER_RUNNING",
                 message |-> <<"No active timer to delete">>])
    ELSE deleteTimeEntryPerform(acc, current.info.timer_id, "active", <<>>)

\* deleteTimeEntry('last') from the answer to getLastTimeEntry() on
deleteTimeEntryLast(acc, last) ==
    LET Check(lastEntry, minutesAgo) ==
          IF lastEntry.endTime.set /\ minutesAgo > SafetyWindowMinutes
          THEN Return([success |-> FALSE, error |-> "ENTRY_TOO_OLD",
                       message |-> <<"Last entry stopped ", minutesAgo,
                                     " minutes ago. Use TMetric web UI to delete specific entries.">>])
          ELSE IF lastEntry.endTime.set
          THEN deleteTimeEntryPerform(acc, lastEntry.id, "stopped", <<minutesAgo, "m">>)
          ELSE deleteTimeEntryPerform(acc, lastEntry.id, "active", <<>>)
    IN  IF ~last.ok
        THEN Return(ApiError(DeleteEntryError, last.err))
        ELSE IF last.entry.id = 0
        THEN Return([success |-> FALSE, error |-> "NO_ENTRIES_FOUND",
                     message |-> <<"No time entries found for today">>])
        ELSE Check(last.entry, MinutesAgo(last.entry.endTime))

----------------------------------------------------------------------------
(* src/src/index.ts: the calls the tool handler makes *)

AbsentArgs == [given |-> FALSE]
EmptyArgs == [given |-> TRUE]
ModeArgs(mode) == [given |-> TRUE, mode |-> mode]
DeleteArgs == {AbsentArgs, EmptyArgs, ModeArgs("current"), ModeArgs("last"), ModeArgs("recent")}

\* The method of the client a call runs.
Method(call) == IF call.name = "delete_time_entry" THEN "deleteTimeEntry" ELSE call.name

\* case 'delete_time_entry': const { mode } = args; deleteTimeEntry(mode), the
\* parameter defaulting to 'current'.
Mode(call) ==
    IF call.name = "delete_time_entry"
    THEN (IF "mode" \in DOMAIN call.args THEN call.args.mode ELSE "current")
    ELSE IF call.name = "deleteTimeEntry" THEN call.mode
    ELSE ""

\* Destructuring undefined throws.
Destructures(call) == call.name = "delete_time_entry" /\ ~call.args.given
DestructureError == <<"Cannot destructure property 'mode' of 'args' as it is undefined.">>

\* JSON.stringify leaves out the properties whose value is undefined:
\* stopped_ago of an active entry, task_url of an entry without link,
\* project_id of an entry without project.
Undefined(res) ==
    {f \in DOMAIN res : \/ f = "stopped_ago" /\ res[f] = <<>>
                        \/ f = "task_url" /\ res[f] = NoUrl
                        \/ f = "project_id" /\ res[f] = 0}

Stringify(res) ==
    [f \in DOMAIN res \ Undefined(res) |->
        IF f = "current_timer"
        THEN [g \in DOMAIN res[f] \ Undefined(res[f]) |-> res[f][g]]
        ELSE res[f]]

\* A faulty variant: the handler without its catch.
CallToolNoCatch(res) == [content |-> Stringify(res), isError |-> FALSE]

\* try { return { content: JSON.stringify(result) } } catch (error) { INTERNAL_ERROR }
CallTool(res) ==
    IF "thrown" \in DOMAIN res
    THEN [content |-> [success |-> FALSE, error |-> "INTERNAL_ERROR", message |-> res.message],
          isError |-> TRUE]
    ELSE [content |-> Stringify(res), isError |-> FALSE]

NoResponse == [none |-> TRUE]

----------------------------------------------------------------------------
(* Invocations.  A frame is where one invocation stands: the request it      *)
(* awaits (pc), the calls of ensureInitialized() it is past, the requests it *)
(* has sent and how each was answered, what its read returned, the remote    *)
(* call of it that failed, the instant its read was sent and the instant of  *)
(* the code that ran last.                                                    *)

NewFrame(call, seq) ==
    [pc |-> "begin", call |-> call, seq |-> seq, ensured |-> 0, reqs |-> <<>>,
     answers |-> <<>>, read |-> NoRead, fail |-> "none", then |-> [none |-> TRUE], result |-> [none |-> TRUE],
     readAt |-> now, at |-> now]

\* A caller that has invoked nothing yet.
Idle == [NewFrame([name |-> "none"], 0) EXCEPT !.pc = "idle", !.readAt = 0, !.at = 0]

\* The calls of ensureInitialized() a method makes before its first request
\* for the account: its own, and the one in the helper that reads the entries.
Resolutions(call) ==
    CASE Method(call) \in {"listProjects", "getCurrentTimer"} -> 1
      [] Method(call) \in {"startTimer", "stopTimer"} -> 2
      [] Method(call) = "deleteTimeEntry" -> IF Mode(call) \in {"current", "last"} THEN 2 ELSE 1
      [] OTHER -> 0

\* Whether the code that runs past the first k calls of ensureInitialized() is
\* inside getCurrentTimer(), whose catch wraps what is thrown there.
InsideCurrentTimer(call, k) ==
    \/ Method(call) = "getCurrentTimer"
    \/ Method(call) = "startTimer" /\ k >= 1
    \/ Method(call) = "deleteTimeEntry" /\ Mode(call) = "current" /\ k >= 1

Prefix(call) ==
    CASE Method(call) = "listProjects" -> ListProjectsError
      [] Method(call) = "startTimer" -> StartTimerError
      [] Method(call) = "stopTimer" -> StopTimerError
      [] OTHER -> DeleteEntryError

\* What the method returns, or throws, when err is thrown inside it.
Thrown(call, inside, err) ==
    LET caught == IF inside THEN <<CurrentTimerError>> \o err ELSE err
    IN  IF Method(call) = "initialize" THEN [thrown |-> TRUE, message |-> err]
        ELSE IF Method(call) = "getCurrentTimer" THEN [thrown |-> TRUE, message |-> caught]
        ELSE ApiError(Prefix(call), caught)

\* The method once the account is resolved: its first request for the account.
FirstCall(call, acc) ==
    CASE Method(call) = "listProjects" -> listProjectsCall(acc)
      [] Method(call) = "deleteTimeEntry" /\ Mode(call) \notin {"current", "last"}
           -> deleteTimeEntryPerform(acc, 0, "", <<>>)
      [] OTHER -> Await(TodayRequest(acc), [none |-> TRUE])

\* The method from the answer to its read on.
OnRead(call, acc, read, txt) ==
    CASE Method(call) = "listProjects" -> listProjectsAnswered(read, txt)
      [] Method(call) = "getCurrentTimer" -> getCurrentTimerAnswered(read, txt)
      [] Method(call) = "startTimer"
           -> startTimerChecked(call.projectId, call.taskName, call.taskUrl, acc,
                                getCurrentTimer(read, txt))
      [] Method(call) = "stopTimer" -> stopTimerFound(acc, getActiveTimeEntry(read, txt))
      [] Method(call) = "deleteTimeEntry" /\ Mode(call) = "current"
           -> deleteTimeEntryCurrent(acc, getCurrentTimer(read, txt))
      [] OTHER -> deleteTimeEntryLast(acc, getLastTimeEntry(read, txt))

\* A faulty variant: a call that failed is issued a second time.
FinishRetried(f, res) ==
    [f EXCEPT !.pc = "done", !.result = res,
              !.reqs = IF "error" \in DOMAIN res /\ res.error = "API_ERROR" /\ Len(@) > 0
                       THEN Append(@, @[Len(@)]) ELSE @]

\* The invocation returns (or throws).
Finish(f, res) == [f EXCEPT !.pc = "done", !.result = res]

\* The invocation goes where a stretch of its code leaves it.
Land(f, stretch) ==
    IF stretch.returns THEN Finish(f, stretch.result)
    ELSE [f EXCEPT !.pc = IF stretch.request.method = "GET" THEN "read" ELSE "write",
                   !.reqs = Append(@, stretch.request),
                   !.then = stretch.then,
                   !.readAt = IF stretch.request.method = "GET" THEN now ELSE @]

\* The invocation runs on from a call of ensureInitialized(): past every call
\* that finds the account resolved, up to the profile read of one that does
\* not, or to the first request for the account.  initialize() called by
\* itself reads the profile whatever accountId holds.
RECURSIVE Resume(_, _)
Resume(f, acc) ==
    IF Method(f.call) = "initialize"
    THEN [f EXCEPT !.pc = "user", !.reqs = Append(@, ProfileRequest)]
    ELSE IF f.ensured < Resolutions(f.call)
    THEN IF ensureInitialized(acc) = <<>>
         THEN Resume([f EXCEPT !.ensured = @ + 1], acc)
         ELSE [f EXCEPT !.pc = "user", !.reqs = @ \o ensureInitialized(acc)]
    ELSE Land(f, FirstCall(f.call, acc))

\* The invocation from its start to its first await.
Begin(call, seq, acc) ==
    IF Destructures(call)
    THEN Finish(NewFrame(call, seq), [thrown |-> TRUE, message |-> DestructureError])
    ELSE Resume(NewFrame(call, seq), acc)

(* What an invocation leaves for the next ones to look back on *)

OutcomeOf(res) ==
    IF "thrown" \in DOMAIN res THEN "THROWN"
    ELSE IF "success" \in DOMAIN res
    THEN (IF res.success THEN "OK" ELSE res.error)
    ELSE "OK"

Mutations(reqs) == SelectSeq(reqs, LAMBDA r : r.method \in {"POST", "PUT", "DELETE"})

TouchedId(res, reqs) ==
    IF "timer_id" \in DOMAIN res THEN res.timer_id
    ELSE IF Len(Mutations(reqs)) > 0 THEN Mutations(reqs)[1].id
    ELSE 0

\* Where the run stands in the sequences the claims follow: a start that
\* succeeded or was refused, then a stop of that same entry right after it;
\* an operation that failed at the account resolution.
NoChain == [stage |-> "none", id |-> 0]
Chain ==
    IF op.name = "startTimer" /\ OutcomeOf(result) = "OK"
    THEN [stage |-> "started", id |-> result.timer_id]
    ELSE IF op.name = "startTimer" /\ OutcomeOf(result) = "TIMER_ALREADY_RUNNING"
    THEN [stage |-> "refused", id |-> result.current_timer.timer_id]
    ELSE IF op.name = "stopTimer" /\ OutcomeOf(result) = "OK"
            /\ prev.stage \in {"started", "refused"}
            /\ prev.id = TouchedId(result, requests)
    THEN [stage |-> IF prev.stage = "started" THEN "startedStopped" ELSE "refusedStopped",
          id |-> prev.id]
    ELSE IF op.fail = "user"
    THEN [stage |-> "unresolved", id |-> 0]
    ELSE NoChain

\* The frame f is where the invocation of p stands after the step; when it
\* has returned, it is what the run looks back on.
Settle(p, f) ==
    /\ procs' = [procs EXCEPT ![p] = f]
    /\ IF f.pc = "done"
       THEN /\ op' = f.call @@ [fail |-> f.fail, at |-> f.at, readAt |-> f.readAt,
                                seq |-> f.seq, answers |-> f.answers]
            /\ readList' = f.read
            /\ requests' = f.reqs
            /\ result' = f.result
            /\ response' = CallTool(f.result)
            /\ prev' = Chain
            /\ now' = now + Tick
       ELSE UNCHANGED <<op, readList, requests, result, response, prev, now>>

----------------------------------------------------------------------------
(* The steps of an invocation *)

\* The callers of the client: the second one is there for the runs in which
\* two invocations overlap.
Procs == {1, 2}

\* The request an invocation awaits the answer to.
Awaited(f) == f.reqs[Len(f.reqs)]

\* The service lists a new entry at any place among the others, or (ends
\* only) first or last.
Places(len, endsOnly) == IF endsOnly THEN {1, len + 1} ELSE 1..(len + 1)

\* A caller invokes: the code runs up to its first request (or returns).
InvokeIn(limit, who, calls) ==
    /\ steps < limit
    /\ \E p \in who, call \in calls :
        /\ procs[p].pc \in {"idle", "done"}
        /\ Settle(p, Begin(call, steps + 1, accountId))
    /\ steps' = steps + 1
    /\ UNCHANGED <<accountId, entries, nextId, tz>>

\* GET /user answers: with the account id, with none, with another account's,
\* or not at all.  initialize() assigns what it got, and the invocation runs
\* on, or throws.
UserAnswersIn(answers) ==
    \E p \in Procs, answer \in answers \cap ProfileAnswers :
        /\ procs[p].pc = "user"
        /\ \E f \in {[procs[p] EXCEPT !.at = now, !.answers = Append(@, answer),
                                      !.fail = IF answer \in {"user", "userEmpty"}
                                               THEN answer ELSE "none"]} :
           \E acc \in {initialize(accountId, answer)} :
            /\ accountId' = acc
            /\ Settle(p, IF answer = "user"
                         THEN Finish(f, Thrown(f.call, InsideCurrentTimer(f.call, f.ensured),
                                               InitError(ErrText("user"))))
                         ELSE IF Method(f.call) = "initialize"
                         THEN Finish(f, [resolved |-> TRUE])
                         ELSE Resume([f EXCEPT !.ensured = @ + 1], acc))
        /\ UNCHANGED <<entries, nextId, tz, steps>>

\* What the service answers to a read for an account.
ServiceRead(req) ==
    IF req.resource = "projects"
    THEN [ok |-> TRUE, list |-> IF req.acc = ServiceAccount THEN ServiceProjects ELSE <<>>]
    ELSE readToday(req.acc, req.date)

\* The faults of a request: one that names no account is refused.
FaultsOf(req, faults) == IF req.acc = NoAccount THEN {"userEmpty"} ELSE faults

\* The read of the entries (or of the projects) answers or fails, and the
\* invocation runs on with what it got.
ReadAnswersIn(faults) ==
    \E p \in Procs :
        /\ procs[p].pc = "read"
        /\ \E fail \in FaultsOf(Awaited(procs[p]), faults \cap {"none", "read"}) :
           \E read \in {IF fail = "none" THEN ServiceRead(Awaited(procs[p])) ELSE NoRead} :
           \E f \in {[procs[p] EXCEPT !.at = now, !.read = read,
                                      !.answers = Append(@, fail),
                                      !.fail = IF fail = "none" THEN @ ELSE fail]} :
              Settle(p, Land(f, OnRead(f.call, accountId, read, ErrText(fail))))
        /\ UNCHANGED <<accountId, entries, nextId, tz, steps>>

\* The create, update or delete call answers: the service has applied it
\* (unless it failed before that) and the invocation returns.  An update or a
\* delete of an entry that is gone changes nothing and succeeds.
WriteAnswersIn(faults, endsOnly) ==
    \E p \in Procs :
        /\ procs[p].pc = "write"
        /\ \E req \in {Awaited(procs[p])} :
           \E fail \in FaultsOf(req, faults \cap {"none", "write", "writeLost"}),
              pos \in Places(Len(entries), endsOnly) :
           \E created \in {IF req.method = "POST" THEN ServiceCreated(req.body) ELSE NoEntry} :
           \E applied \in {(fail \in {"none", "writeLost"}) /\ (req.acc = ServiceAccount)} :
              /\ pos = 1 \/ (applied /\ req.method = "POST")
              /\ entries' = IF ~applied THEN entries
                            ELSE IF req.method = "POST" THEN InsertAt(entries, pos, created)
                            ELSE IF req.method = "PUT"
                            THEN ServiceUpdated(entries, req.id, req.body)
                            ELSE ServiceDeleted(entries, req.id)
              /\ nextId' = IF applied /\ req.method = "POST" THEN nextId + 1 ELSE nextId
              /\ Settle(p, Finish([procs[p] EXCEPT !.answers = Append(@, fail),
                                                   !.fail = IF fail = "none" THEN @ ELSE fail],
                                  IF fail # "none"
                                  THEN ApiError(Prefix(procs[p].call), <<ErrText(fail)>>)
                                  ELSE IF req.method = "POST"
                                  THEN startTimerCreated(procs[p].then.task_name, created)
                                  ELSE procs[p].then))
        /\ UNCHANGED <<accountId, tz, steps>>

\* Time passes, between invocations or while one awaits an answer.
AdvanceIn(limit) ==
    /\ steps < limit
    /\ \E step \in ClockSteps :
        /\ now' = now + step
        /\ steps' = steps + 1
        /\ UNCHANGED <<accountId, entries, nextId, tz, op, readList, requests, result, response,
                       prev, procs>>

(* The calls *)

ListCall == [name |-> "listProjects"]
CurrentCall == [name |-> "getCurrentTimer"]
StartCalls(projectIds, taskNames, taskUrls) ==
    {[name |-> "startTimer", projectId |-> projectId, taskName |-> taskName,
      taskUrl |-> taskUrl] : projectId \in projectIds, taskName \in taskNames,
                             taskUrl \in taskUrls}
StopCall == [name |-> "stopTimer"]
DeleteCalls == {[name |-> "deleteTimeEntry", mode |-> mode] : mode \in {"current", "last"}}
ToolDeleteCalls == {[name |-> "delete_time_entry", args |-> args] : args \in DeleteArgs}

\* One caller, whose invocations follow one another.
ListProjectsIn(limit) == InvokeIn(limit, {1}, {ListCall})
GetCurrentTimerIn(limit) == InvokeIn(limit, {1}, {CurrentCall})
StartTimerIn(limit) == InvokeIn(limit, {1}, StartCalls(ProjectIds, TaskNames, TaskUrls))
StopTimerIn(limit) == InvokeIn(limit, {1}, {StopCall})
DeleteTimeEntryIn(limit) == InvokeIn(limit, {1}, DeleteCalls)

----------------------------------------------------------------------------
(* The account the run starts from: empty, or holding entries made earlier  *)
(* the same evening.  One entry was started three hours ago and is running  *)
(* or was stopped five and a half minutes ago; it has a named task, a note  *)
(* only, or neither.  An older entry, started four hours ago and stopped    *)
(* six minutes ago, may stand alone or be listed before or after it.        *)

Named == [task |-> "Seed task", note |-> "", project |-> 7]
NoteOnly == [task |-> "", note |-> "Seed note", project |-> 7]
\* An entry with no task, no note and no project.
Bare == [task |-> "", note |-> "", project |-> 0]

SeedEntry(id, shape, startAgo, running, endAgo) ==
    [id |-> id,
     startTime |-> LocalStamp(InitNow - startAgo * MsPerMinute - tz * MsPerMinute),
     endTime |-> IF running THEN NullTime
                 ELSE LocalStamp(InitNow - endAgo - tz * MsPerMinute),
     projectId |-> shape.project,
     task |-> [name |-> shape.task, externalLink |-> NoLink, integration |-> NoIntegration],
     note |-> shape.note, tags |-> <<"billable">>]

Seed(shape, running) == SeedEntry(100, shape, 180, running, 330000)
Old == SeedEntry(101, Named, 240, FALSE, 360000)

InitAccounts ==
    {<<>>, <<Seed(Named, TRUE)>>, <<Seed(Named, FALSE)>>, <<Seed(NoteOnly, TRUE)>>,
     <<Seed(Bare, TRUE)>>, <<Old>>, <<Old, Seed(Named, FALSE)>>, <<Seed(Named, FALSE), Old>>}

\* A run begins on a machine in one of the timezones, nothing invoked yet.
InitRun ==
    /\ tz \in TzOffsets
    /\ now = InitNow
    /\ nextId = 1
    /\ op = [name |-> "none", fail |-> "none", at |-> InitNow, readAt |-> InitNow, seq |-> 0,
             answers |-> <<>>]
    /\ readList = NoRead
    /\ requests = <<>>
    /\ result = [none |-> TRUE]
    /\ response = NoResponse
    /\ prev = NoChain
    /\ steps = 0
    /\ procs = [p \in Procs |-> Idle]

\* A fresh client.
InitClient == accountId = NoAccount /\ InitRun

Init == InitClient /\ entries \in InitAccounts

(* Runs in which any remote call may fail *)

ListProjects == ListProjectsIn(MaxSteps)
GetCurrentTimer == GetCurrentTimerIn(MaxSteps)
StartTimer == StartTimerIn(MaxSteps)
StopTimer == StopTimerIn(MaxSteps)
DeleteTimeEntry == DeleteTimeEntryIn(MaxSteps)
UserAnswers == UserAnswersIn(FailPoints)
ReadAnswers == ReadAnswersIn(FailPoints)
WriteAnswers == WriteAnswersIn(FailPoints, FALSE)
Advance == AdvanceIn(MaxSteps)

Next ==
    \/ ListProjects
    \/ GetCurrentTimer
    \/ StartTimer
    \/ StopTimer
    \/ DeleteTimeEntry
    \/ UserAnswers
    \/ ReadAnswers
    \/ WriteAnswers
    \/ Advance

Spec == Init /\ [][Next]_vars

(* Longer runs of the timer commands in which every remote call succeeds *)

QuietNext ==
    \/ StartTimerIn(MaxQuietSteps)
    \/ StopTimerIn(MaxQuietSteps)
    \/ DeleteTimeEntryIn(MaxQuietSteps)
    \/ UserAnswersIn({"none"})
    \/ ReadAnswersIn({"none"})
    \/ WriteAnswersIn({"none"}, TRUE)
    \/ AdvanceIn(MaxQuietSteps)

QuietSpec == Init /\ [][QuietNext]_vars

(* Runs in which another client of the same account (the web application, a  *)
(* second server) changes the remote entries between this client's calls or *)
(* while one of them awaits an answer: it starts an entry, stops a running   *)
(* one or deletes one.                                                       *)

OtherClientIn(limit) ==
    /\ steps < limit
    /\ \/ /\ entries' = Append(entries,
                               ServiceCreated([endTime |-> NullTime, projectId |-> 7,
                                               task |-> NoTask, tags |-> <<>>]))
          /\ nextId' = nextId + 1
       \/ /\ \E i \in 1..Len(entries) :
                /\ IsRunning(entries[i])
                /\ entries' = [entries EXCEPT ![i].endTime = LocalEndTime(now)]
          /\ UNCHANGED nextId
       \/ /\ \E i \in 1..Len(entries) : entries' = ServiceDeleted(entries, entries[i].id)
          /\ UNCHANGED nextId
    /\ now' = now + Tick
    /\ steps' = steps + 1
    /\ UNCHANGED <<accountId, tz, op, readList, requests, result, response, prev, procs>>

SharedNext ==
    \/ GetCurrentTimerIn(MaxSteps)
    \/ StartTimerIn(MaxSteps)
    \/ StopTimerIn(MaxSteps)
    \/ DeleteTimeEntryIn(MaxSteps)
    \/ UserAnswersIn({"none"})
    \/ ReadAnswersIn({"none"})
    \/ WriteAnswersIn({"none"}, TRUE)
    \/ OtherClientIn(MaxSteps)

SharedSpec == Init /\ [][SharedNext]_vars

(* Short runs of startTimer over every kind of argument (two projects, two  *)
(* task names, no URL and URLs of every shape), each followed by stopTimer.  *)

\* How far the runs over the wider arguments go.
MaxArgSteps == 2

ArgProjects == {7, 8}
ArgNames == {"Fix bug", "Write docs"}

ArgsNext ==
    \/ InvokeIn(MaxArgSteps, {1}, StartCalls(ArgProjects, ArgNames, ArgUrls))
    \/ StopTimerIn(MaxArgSteps)
    \/ UserAnswersIn({"none"})
    \/ ReadAnswersIn({"none"})
    \/ WriteAnswersIn({"none"}, TRUE)

ArgsSpec == Init /\ [][ArgsNext]_vars

(* getCurrentTimer called on an account whose one running entry started any  *)
(* number of minutes ago, under an hour to over two days, or some way ahead  *)
(* of the clock (the service's clock and the client's differ), as the clock  *)
(* moves on.  The entry is projected only when the read of today holds it.   *)

\* How far ahead of the clock an entry may start, in minutes.
MaxAhead == 61

ElapsedMinutes == {0, 59, 60, 150, 1439, 1440, 1500, 2945, -1, -2, -MaxAhead}

\* A running entry that starts ms milliseconds after the run begins.
StartsAhead(id, ms) ==
    [SeedEntry(id, Named, 0, TRUE, 0)
        EXCEPT !.startTime = LocalStamp(InitNow + ms - tz * MsPerMinute)]

ElapsedAccounts ==
    {<<SeedEntry(102, Named, m, TRUE, 0)>> : m \in ElapsedMinutes}
        \cup {<<StartsAhead(102, ms)>> : ms \in {1, MsPerMinute + 1}}

ElapsedNext ==
    \/ GetCurrentTimerIn(MaxSteps)
    \/ UserAnswersIn({"none"})
    \/ ReadAnswersIn({"none"})
    \/ AdvanceIn(MaxSteps)

ElapsedInit == InitClient /\ entries \in ElapsedAccounts

ElapsedSpec == ElapsedInit /\ [][ElapsedNext]_vars

(* Runs from an account whose running entry was started ninety minutes and  *)
(* a half ago, its startTime written with the UTC suffix (as in              *)
(* '2024-01-15T10:30:00Z') or as local time with none, or starts half a      *)
(* minute or an hour and a half ahead of the clock.                          *)

UtcStamp(t) == [set |-> TRUE, wall |-> t, utc |-> TRUE]

StampedAccounts ==
    {<<[SeedEntry(103, Named, 90, TRUE, 0)
          EXCEPT !.startTime = UtcStamp(InitNow - 90 * MsPerMinute - MsPerMinute \div 2)]>>,
     <<[SeedEntry(103, Named, 90, TRUE, 0)
          EXCEPT !.startTime = LocalStamp(InitNow - 90 * MsPerMinute - MsPerMinute \div 2
                                          - tz * MsPerMinute)]>>,
     <<StartsAhead(103, MsPerMinute \div 2)>>,
     <<StartsAhead(103, 90 * MsPerMinute)>>}

StampedNext ==
    \/ GetCurrentTimerIn(MaxSteps)
    \/ StartTimerIn(MaxSteps)
    \/ StopTimerIn(MaxSteps)
    \/ UserAnswersIn({"none"})
    \/ ReadAnswersIn({"none"})
    \/ WriteAnswersIn({"none"}, TRUE)
    \/ AdvanceIn(MaxSteps)

StampedInit == InitClient /\ entries \in StampedAccounts

StampedSpec == StampedInit /\ [][StampedNext]_vars

(* Short runs of the five tools in which any remote call may fail, the      *)
(* delete_time_entry tool invoked as its caller may: with no argument bag,  *)
(* with an empty bag, or with a mode, one of the two or some other text.    *)

ToolNext ==
    \/ InvokeIn(MaxArgSteps, {1}, ToolDeleteCalls)
    \/ StartTimerIn(MaxArgSteps)
    \/ StopTimerIn(MaxArgSteps)
    \/ GetCurrentTimerIn(MaxArgSteps)
    \/ ListProjectsIn(MaxArgSteps)
    \/ UserAnswersIn(FailPoints)
    \/ ReadAnswersIn(FailPoints)
    \/ WriteAnswersIn(FailPoints, TRUE)

ToolSpec == Init /\ [][ToolNext]_vars

(* Two invocations that overlap on one client: either caller may invoke     *)
(* while the other's call awaits an answer, and the two interleave wherever *)
(* the code awaits.  A profile read answers with the account id or fails.   *)

\* Invocations in a run of overlapping calls.
MaxOverlapSteps == 2

OverlapNext ==
    \/ InvokeIn(MaxOverlapSteps, Procs,
                {ListCall, CurrentCall, StopCall} \cup DeleteCalls
                    \cup StartCalls(ProjectIds, TaskNames, TaskUrls))
    \/ UserAnswersIn({"none", "user"})
    \/ ReadAnswersIn({"none"})
    \/ WriteAnswersIn({"none"}, TRUE)

OverlapSpec == Init /\ [][OverlapNext]_vars

(* The client used as a class, as the repository's tests use it: initialize() *)
(* called by itself, on a fresh client or on one already resolved, with the  *)
(* profile read answering in any way, between listProjects and               *)
(* getCurrentTimer.                                                          *)

ClientNext ==
    \/ InvokeIn(MaxSteps, {1}, {[name |-> "initialize"]})
    \/ ListProjectsIn(MaxSteps)
    \/ GetCurrentTimerIn(MaxSteps)
    \/ UserAnswersIn(ProfileAnswers)
    \/ ReadAnswersIn({"none", "read"})

ClientSpec == Init /\ [][ClientNext]_vars

(* formatMinutesToGitLab applied to every number of minutes up to a bound,   *)
(* and to the negative ones a start ahead of the clock gives.                *)

MaxMinutes == 1500

FormatMinutes ==
    \E minutes \in (-2 * MaxAhead)..MaxMinutes :
        /\ op' = [name |-> "formatMinutesToGitLab", minutes |-> minutes, fail |-> "none",
                  at |-> now, readAt |-> now, seq |-> 0, answers |-> <<>>]
        /\ result' = [time_spent |-> formatMinutesToGitLab(minutes)]
        /\ UNCHANGED <<accountId, entries, nextId, now, tz, readList, requests, response, prev,
                       steps, procs>>

FormatInit == InitClient /\ entries = <<>>

FormatSpec == FormatInit /\ [][FormatMinutes]_vars

(* Two processes on the same account, each with a client that has resolved  *)
(* the account, each calling startTimer once: startTimer awaits its read of *)
(* today's entries, decides, and then awaits the create, and the remote     *)
(* calls of the two interleave.                                              *)

RaceNext ==
    \/ \E p \in Procs :
          /\ procs[p].pc = "idle"
          /\ InvokeIn(MaxOverlapSteps, {p}, StartCalls(ProjectIds, TaskNames, TaskUrls))
    \/ ReadAnswersIn({"none"})
    \/ WriteAnswersIn({"none"}, TRUE)

RaceInit == accountId = ServiceAccount /\ InitRun /\ entries \in InitAccounts

RaceSpec == RaceInit /\ [][RaceNext]_vars

----------------------------------------------------------------------------
(* Properties.  The observation variables hold the invocation that returned *)
(* last: what it was (op), what its read of today's entries returned        *)
(* (readList), the requests it issued and what it returned.  op.at is the   *)
(* instant of the code that ran on the answer to its read, op.readAt the    *)
(* instant that read was sent.                                               *)

NoRequest(method) == \A i \in 1..Len(requests) : requests[i].method # method

RunningIn(list) == {list[i] : i \in {j \in 1..Len(list) : IsRunning(list[j])}}

\* C1: whenever the read of today's entries made by startTimer returns at least
\* one entry with endTime null, startTimer returns success false with error
\* TIMER_ALREADY_RUNNING, carries the projection of that running entry as
\* current_timer and issues no POST, whatever projectId, taskName and taskUrl.
C1_StartRefusedWhileRunning ==
    (op.name = "startTimer" /\ readList.ok /\ RunningCount(readList.list) >= 1)
    => /\ OutcomeOf(result) = "TIMER_ALREADY_RUNNING"
       /\ result.success = FALSE
       /\ \E e \in RunningIn(readList.list) :
            /\ result.current_timer.is_running
            /\ result.current_timer.timer_id = e.id
            /\ result.current_timer.started_at = e.startTime
            /\ result.current_timer.project_id = e.projectId
            /\ result.current_timer
                 = [TimerInfo(e) EXCEPT !.elapsed = result.current_timer.elapsed]
       /\ NoRequest("POST")

\* A start refused on a read that returned a stopped entry beside the running one.
C1_Witness ==
    /\ op.name = "startTimer"
    /\ readList.ok
    /\ Len(readList.list) >= 2
    /\ RunningCount(readList.list) = 1
    /\ OutcomeOf(result) = "TIMER_ALREADY_RUNNING"
    /\ NoRequest("POST")

\* C2: starting from an account in which at most one of today's entries is
\* running, with this client the only writer and the run within one calendar
\* day, after any sequence of start, stop and delete invocations (remote calls
\* succeeding or failing) at most one of today's entries has endTime null.
\* Today is the local calendar date, the date the service files entries under.
C2_AtMostOneRunningToday ==
    LocalDate(now) = LocalDate(InitNow)
    => RunningCount(ServiceList(LocalDate(now))) <= 1

\* C3: stopTimer invoked when today's entries, as its read returns them, hold
\* no entry with endTime null returns success false with error
\* NO_TIMER_RUNNING and issues no PUT.
C3_StopRefusedWhenIdle ==
    (op.name = "stopTimer" /\ readList.ok /\ RunningCount(readList.list) = 0)
    => /\ OutcomeOf(result) = "NO_TIMER_RUNNING"
       /\ result.success = FALSE
       /\ NoRequest("PUT")

\* A stop refused although the day has entries, all of them stopped.
C3_Witness ==
    /\ op.name = "stopTimer"
    /\ readList.ok
    /\ Len(readList.list) >= 1
    /\ RunningCount(readList.list) = 0
    /\ OutcomeOf(result) = "NO_TIMER_RUNNING"
    /\ NoRequest("PUT")

\* What the last invocation was asked to delete, and whether it asked.
DeletesOnly(id) ==
    \A i \in 1..Len(requests) : requests[i].method = "DELETE" => requests[i].id = id
DeleteIssued(id) ==
    \E i \in 1..Len(requests) : requests[i].method = "DELETE" /\ requests[i].id = id

\* The entries of a list that no other entry of it started after.
LatestStarted(list) ==
    {list[i] : i \in {j \in 1..Len(list) :
        \A k \in 1..Len(list) :
            ParseInstant(list[k].startTime) <= ParseInstant(list[j].startTime)}}

DistinctStarts(list) ==
    \A i, j \in 1..Len(list) : i # j => list[i].startTime # list[j].startTime

\* Whole minutes from an entry's endTime to the instant of the last invocation.
WholeMinutesSince(endTime) == (op.at - ParseInstant(endTime)) \div MsPerMinute

DeleteLastRead ==
    /\ op.name = "deleteTimeEntry"
    /\ op.mode = "last"
    /\ readList.ok
    /\ Len(readList.list) > 0

\* C4: deleteTimeEntry('last') issues a DELETE for its target if and only if
\* the target's endTime is null or floor((now - endTime) / 60000) <= 5; when
\* that count is above 5 it returns ENTRY_TOO_OLD and issues no DELETE.  On
\* success the result has entry_type 'stopped' and stopped_ago '{minutes}m'
\* for a stopped target, entry_type 'active' and no stopped_ago for a running one.
C4_DeleteLastWindow ==
    DeleteLastRead
    => \A target \in {SortByStartDesc(readList.list)[1]} :
         /\ DeleteIssued(target.id)
              <=> (~target.endTime.set
                   \/ WholeMinutesSince(target.endTime) <= SafetyWindowMinutes)
         /\ (target.endTime.set /\ WholeMinutesSince(target.endTime) > SafetyWindowMinutes)
              => (OutcomeOf(result) = "ENTRY_TOO_OLD" /\ NoRequest("DELETE"))
         /\ OutcomeOf(result) = "OK"
              => IF target.endTime.set
                 THEN /\ result.entry_type = "stopped"
                      /\ result.stopped_ago = <<WholeMinutesSince(target.endTime), "m">>
                 ELSE /\ result.entry_type = "active"
                      /\ result.stopped_ago = <<>>

\* An entry deleted five and a half minutes after it was stopped.
C4_Witness ==
    /\ DeleteLastRead
    /\ OutcomeOf(result) = "OK"
    /\ result.entry_type = "stopped"
    /\ result.stopped_ago = <<SafetyWindowMinutes, "m">>
    /\ DeleteIssued(result.deleted)

\* C5: for any non-empty list of today's entries with pairwise distinct
\* startTime values, returned in any order, deleteTimeEntry('last') targets
\* exactly the entry with the maximum startTime, and deletes no other entry.
C5_DeleteLastTargetsLatest ==
    [][(/\ op' # op
        /\ op'.name = "deleteTimeEntry"
        /\ op'.mode = "last"
        /\ readList'.ok
        /\ Len(readList'.list) > 0
        /\ DistinctStarts(readList'.list))
       => \A latest \in LatestStarted(readList'.list) :
            /\ DeletesOnly(latest.id)'
            /\ OutcomeOf(result') = "OK" => result'.deleted = latest.id
            /\ OutcomeOf(result') = "ENTRY_TOO_OLD" => latest.endTime.set
            /\ entries' \in {entries, ServiceDeleted(entries, latest.id)}
            /\ DeleteIssued(latest.id)' /\ op'.fail # "write"
                 => entries' = ServiceDeleted(entries, latest.id)]_vars

\* The latest entry deleted from the middle of a list of three.
C5_Witness ==
    /\ DeleteLastRead
    /\ Len(readList.list) >= 3
    /\ DistinctStarts(readList.list)
    /\ OutcomeOf(result) = "OK"
    /\ readList.list[2].id = result.deleted
    /\ readList.list[2] \in LatestStarted(readList.list)

\* C6: deleteTimeEntry('current') targets only the active entry: when today's
\* entries, as its read returns them, hold no entry with endTime null it
\* returns NO_TIMER_RUNNING and issues no DELETE, stopped entries or not; when
\* one is running it deletes that entry's id and reports entry_type 'active'.
C6_DeleteCurrentOnlyActive ==
    (op.name = "deleteTimeEntry" /\ op.mode = "current" /\ readList.ok)
    => IF RunningCount(readList.list) = 0
       THEN /\ OutcomeOf(result) = "NO_TIMER_RUNNING"
            /\ result.success = FALSE
            /\ NoRequest("DELETE")
       ELSE \E e \in RunningIn(readList.list) :
              /\ DeleteIssued(e.id)
              /\ DeletesOnly(e.id)
              /\ op.fail = "none"
                   => /\ OutcomeOf(result) = "OK"
                      /\ result.deleted = e.id
                      /\ result.entry_type = "active"
                      /\ \A i \in 1..Len(entries) : entries[i].id # e.id

\* A delete of the current timer refused on a day that has a stopped entry.
C6_Witness ==
    /\ op.name = "deleteTimeEntry"
    /\ op.mode = "current"
    /\ readList.ok
    /\ Len(readList.list) >= 1
    /\ RunningCount(readList.list) = 0
    /\ OutcomeOf(result) = "NO_TIMER_RUNNING"
    /\ NoRequest("DELETE")

\* The step is the return of a deleteTimeEntry that follows, with nothing but
\* time in between, a successful startTimer and a successful stopTimer of the
\* entry it started, and that looked at the clock no more than five whole
\* minutes after that stop.
DeleteAfterStartStop ==
    /\ Chain.stage = "startedStopped"
    /\ op' # op
    /\ op'.name = "deleteTimeEntry"
    /\ (op'.at - op.at) \div MsPerMinute <= SafetyWindowMinutes

DeletedJustStopped ==
    /\ OutcomeOf(result') = "OK"
    /\ result'.deleted = Chain.id
    /\ result'.entry_type = "stopped"
    /\ entries' = ServiceDeleted(entries, Chain.id)
    /\ Len(entries') = Len(entries) - 1

RefusedNoTimer ==
    /\ OutcomeOf(result') = "NO_TIMER_RUNNING"
    /\ NoRequest("DELETE")'
    /\ entries' = entries

\* C7: in a single-client run, after a successful startTimer followed by a
\* successful stopTimer, deleteTimeEntry('last') issued while the whole minutes
\* since the stop are <= 5 deletes exactly the entry just stopped (entry_type
\* 'stopped'), and deleteTimeEntry('current') at that point fails with
\* NO_TIMER_RUNNING and deletes nothing.
C7_DeleteAfterStop ==
    [][DeleteAfterStartStop
       => IF op'.mode = "last" THEN DeletedJustStopped ELSE RefusedNoTimer]_vars

\* C8: with no other writer and on the same day, after startTimer fails with
\* TIMER_ALREADY_RUNNING a successful stopTimer returns the account to IDLE (no
\* entry of today running), and the next startTimer succeeds and creates
\* exactly one new running entry.
C8_RecoverByStopping ==
    [][(Chain.stage = "refusedStopped" /\ LocalDate(now) = LocalDate(InitNow))
       => /\ RunningCount(ServiceList(LocalDate(now))) = 0
          /\ (op' # op /\ op'.name = "startTimer")
               => /\ OutcomeOf(result') = "OK"
                  /\ Len(entries') = Len(entries) + 1
                  /\ RunningCount(entries') = RunningCount(entries) + 1
                  /\ RunningCount(ServiceList(LocalDate(now)))' = 1]_vars

\* The name the fallback gives an entry: task.name, else note, else a placeholder.
FallbackNames(e) ==
    IF e.task.name # "" THEN {e.task.name}
    ELSE IF e.note # "" THEN {e.note}
    ELSE {"No description", "Unknown task"}

\* C9: every task_name returned for an existing entry, in the getCurrentTimer
\* projection (the current_timer of TIMER_ALREADY_RUNNING included) and in the
\* stopTimer result, is task.name when present, otherwise note when present,
\* otherwise a literal placeholder.
C9_TaskNameFallback ==
    /\ (op.name = "getCurrentTimer" /\ OutcomeOf(result) = "OK" /\ result.is_running)
        => \E e \in RunningIn(readList.list) :
             result.timer_id = e.id /\ result.task_name \in FallbackNames(e)
    /\ (op.name = "startTimer" /\ OutcomeOf(result) = "TIMER_ALREADY_RUNNING")
        => \E e \in RunningIn(readList.list) :
             /\ result.current_timer.timer_id = e.id
             /\ result.current_timer.task_name \in FallbackNames(e)
    /\ (op.name = "stopTimer" /\ OutcomeOf(result) = "OK")
        => \E e \in RunningIn(readList.list) :
             DeletesOnly(e.id) /\ Mutations(requests)[1].id = e.id
             /\ result.task_name \in FallbackNames(e)

\* C10: listProjects, startTimer, stopTimer and deleteTimeEntry never throw:
\* when a remote call they make fails (the account resolution, the read of
\* today's entries or of the projects, the create, update or delete call) they
\* return success false with error API_ERROR and a message that ends with the
\* text of the underlying error.
C10_FailuresAreApiErrors ==
    (op.name \in {"listProjects", "startTimer", "stopTimer", "deleteTimeEntry"}
     /\ op.fail # "none")
    => /\ OutcomeOf(result) = "API_ERROR"
       /\ result.success = FALSE
       /\ Len(result.message) >= 2
       /\ result.message[Len(result.message)] = ErrText(op.fail)

\* A stop whose update reached the service while its response was lost.
C10_Witness ==
    /\ op.name = "stopTimer"
    /\ op.fail = "writeLost"
    /\ OutcomeOf(result) = "API_ERROR"
    /\ ~NoRequest("PUT")
    /\ RunningCount(entries) = 0

\* C11: getCurrentTimer throws, and returns no structured result, when the
\* account resolution or the read of today's entries fails; the handler of
\* get_current_timer answers that throw with success false, error
\* INTERNAL_ERROR and the message.  A read that succeeds and shows no running
\* entry gives is_running false and is never reported as an error.
C11_CurrentTimerThrowsToInternalError ==
    op.name = "getCurrentTimer"
    => IF op.fail # "none"
       THEN /\ OutcomeOf(result) = "THROWN"
            /\ result.message[Len(result.message)] = ErrText(op.fail)
            /\ response.isError
            /\ response.content = [success |-> FALSE, error |-> "INTERNAL_ERROR",
                                    message |-> result.message]
       ELSE /\ readList.ok
            /\ OutcomeOf(result) = "OK"
            /\ ~response.isError
            /\ RunningCount(readList.list) = 0
                 => (result = [is_running |-> FALSE] /\ response.content = result)

\* The read of today's entries failed under getCurrentTimer on a resolved client.
C11_Witness ==
    /\ op.name = "getCurrentTimer"
    /\ op.fail = "read"
    /\ accountId = ServiceAccount
    /\ response.isError
    /\ response.content.error = "INTERNAL_ERROR"

UserReads(reqs) == SelectSeq(reqs, LAMBDA r : r.resource = "user")

\* The step sends a profile read of the invocation of p.
ProfileReadSent(p) ==
    Len(UserReads(procs'[p].reqs))
        > (IF procs'[p].seq = procs[p].seq THEN Len(UserReads(procs[p].reqs)) ELSE 0)

\* C12: across any sequence of invocations on one client the profile read
\* (GET /user) is sent only while accountId is unset; once a resolution has
\* succeeded accountId never changes, and an invocation that sends no profile
\* read runs on a resolved client.
C12_ResolvedOnce ==
    [][/\ \A p \in Procs : ProfileReadSent(p) => accountId' = NoAccount
       /\ accountId # NoAccount => accountId' = accountId
       /\ (op' # op /\ Len(UserReads(requests')) = 0) => accountId' # NoAccount
       /\ accountId' \in {accountId, ServiceAccount}]_vars

\* An invocation on a client resolved by an earlier one: it reads no profile.
C12_Witness ==
    /\ op.name = "stopTimer"
    /\ steps >= 2
    /\ accountId = ServiceAccount
    /\ Len(requests) >= 1
    /\ Len(UserReads(requests)) = 0

\* C13: no account-scoped request (projects, time-entry list, create, update,
\* delete) is issued while accountId is unset: when the profile read fails or
\* yields no account identifier the operation issues no such request.
C13_NoRequestWithoutAccount ==
    /\ \A i \in 1..Len(requests) :
         requests[i].resource # "user" => requests[i].acc # NoAccount
    /\ (op.fail \in {"user", "userEmpty"})
         => \A i \in 1..Len(requests) : requests[i].resource = "user"

\* C14: the startDate and endDate of every request for today's time entries
\* equal the local calendar date at the time of the call, for every instant
\* and timezone offset, also where the local and the UTC date differ.
C14_TodayIsLocalDate ==
    \A i \in 1..Len(requests) :
        (requests[i].method = "GET" /\ requests[i].resource = "timeentries")
            => requests[i].date = LocalDate(op.readAt)

TodayReads(reqs) ==
    SelectSeq(reqs, LAMBDA r : r.method = "GET" /\ r.resource = "timeentries")

\* The step is the answer to the read of today's entries the invocation of p awaits.
ReadAnswered(p) ==
    /\ procs[p].pc = "read"
    /\ procs'[p].seq = procs[p].seq
    /\ procs'[p].pc # "read"
    /\ Awaited(procs[p]).resource = "timeentries"

\* C15: timer state is never cached: every getCurrentTimer, startTimer,
\* stopTimer and deleteTimeEntry invocation reads today's entries itself, the
\* read returns the remote entries as they are at that moment (changes made by
\* another client included), and the outcome follows from that read alone.
C15_FreshReadEveryInvocation ==
    [][/\ \A p \in Procs :
            ReadAnswered(p)
            => /\ procs'[p].read.ok
               /\ procs'[p].read.list = ServiceList(Awaited(procs[p]).date)
       /\ (op' # op /\ op'.name \in {"getCurrentTimer", "startTimer", "stopTimer",
                                     "deleteTimeEntry"})
          => /\ Len(TodayReads(requests')) = 1
             /\ readList'.ok
             /\ CASE op'.name = "getCurrentTimer"
                       -> result'.is_running = (RunningCount(readList'.list) > 0)
                  [] op'.name = "startTimer"
                       -> OutcomeOf(result') = IF RunningCount(readList'.list) > 0
                                               THEN "TIMER_ALREADY_RUNNING" ELSE "OK"
                  [] op'.name = "stopTimer"
                       -> OutcomeOf(result') = IF RunningCount(readList'.list) > 0
                                               THEN "OK" ELSE "NO_TIMER_RUNNING"
                  [] op'.name = "deleteTimeEntry" /\ op'.mode = "current"
                       -> OutcomeOf(result') = IF RunningCount(readList'.list) > 0
                                               THEN "OK" ELSE "NO_TIMER_RUNNING"
                  [] op'.name = "deleteTimeEntry" /\ op'.mode = "last"
                       -> (OutcomeOf(result') = "NO_ENTRIES_FOUND") = (Len(readList'.list) = 0)]_vars

\* This client started an entry, another client stopped it, and the stopTimer
\* that followed read the entry as stopped and answered that no timer runs.
C15_Witness ==
    /\ op.name = "stopTimer"
    /\ prev.stage = "started"
    /\ OutcomeOf(result) = "NO_TIMER_RUNNING"
    /\ \E i \in 1..Len(readList.list) :
         readList.list[i].id = prev.id /\ ~IsRunning(readList.list[i])

Succeeded(p) == procs[p].pc = "done" /\ OutcomeOf(procs[p].result) = "OK"

\* C16: the IDLE check of startTimer is a read followed by an act, not one
\* atomic step: a process that has read no running entry creates its entry
\* and returns success whatever the other process did after that read, and a
\* process that has read a running entry is refused; every success adds one
\* running entry.  So two processes that both read before either creates both
\* succeed and leave two entries with endTime null.
C16_CheckThenAct ==
    /\ \A p \in Procs :
         procs[p].pc = "done"
         => /\ procs[p].read.ok
            /\ Succeeded(p) = (RunningCount(procs[p].read.list) = 0)
            /\ ~Succeeded(p) => OutcomeOf(procs[p].result) = "TIMER_ALREADY_RUNNING"
    /\ Cardinality({i \in 1..Len(entries) : entries[i].id < 100 /\ IsRunning(entries[i])})
         = Cardinality({p \in Procs : Succeeded(p)})

\* Both processes read a list with no running entry in it, both returned
\* success, and the account holds their two entries, both running.  With the
\* offset 0 the reads ask for the date the entries are filed under.
C16_Witness ==
    /\ tz = 0
    /\ \A p \in Procs : Succeeded(p) /\ RunningCount(procs[p].read.list) = 0
    /\ procs[1].result.timer_id # procs[2].result.timer_id
    /\ RunningCount(entries) = 2
    /\ \A p \in Procs : \E i \in 1..Len(entries) :
         entries[i].id = procs[p].result.timer_id /\ IsRunning(entries[i])

Posts(reqs) == SelectSeq(reqs, LAMBDA r : r.method = "POST")

\* C17: when the read of today's entries shows no running entry, startTimer
\* issues exactly one create request, with the body {startTime: null,
\* endTime: null, project: {id: projectId}, task, tags: []} whose task.name is
\* taskName, and returns success with the id and startTime of the entry the
\* service created and task_name equal to the taskName supplied.
C17_StartCreatesOneEntry ==
    (op.name = "startTimer" /\ readList.ok /\ RunningCount(readList.list) = 0)
    => /\ Len(Mutations(requests)) = 1
       /\ Len(Posts(requests)) = 1
       /\ Posts(requests)[1].resource = "timeentries"
       /\ DOMAIN Posts(requests)[1].body = {"startTime", "endTime", "projectId", "task", "tags"}
       /\ Posts(requests)[1].body.startTime = NullTime
       /\ Posts(requests)[1].body.endTime = NullTime
       /\ Posts(requests)[1].body.projectId = op.projectId
       /\ Posts(requests)[1].body.tags = <<>>
       /\ Posts(requests)[1].body.task.name = op.taskName
       /\ result.success
       /\ DOMAIN result = {"success", "timer_id", "started_at", "task_name"}
       /\ result.task_name = op.taskName
       /\ result.timer_id = nextId - 1
       /\ \E i \in 1..Len(entries) :
            /\ entries[i].id = result.timer_id
            /\ entries[i].startTime = result.started_at
            /\ \A j \in 1..Len(readList.list) : readList.list[j].id # entries[i].id

\* A start with no URL, for the second project, beside an entry stopped earlier.
C17_Witness ==
    /\ op.name = "startTimer"
    /\ op.taskUrl = NoUrl
    /\ op.projectId = 8
    /\ op.taskName = "Write docs"
    /\ Len(readList.list) >= 1
    /\ result.success
    /\ Len(Posts(requests)) = 1

\* C18: the task startTimer creates carries externalLink {link: taskUrl,
\* issueId: "{type} Issue: #{n}"} and integration {url: base URL of taskUrl,
\* type} exactly when a taskUrl was supplied and it has an issue number n, type
\* being GitHub when the host contains github.com and GitLab otherwise; with
\* no URL, a URL without issues/{n} or a malformed URL the task carries only
\* its name, and the start succeeds all the same.
C18_LinkOnlyForIssueUrls ==
    (op.name = "startTimer" /\ Len(Posts(requests)) = 1)
    => /\ result.success
       /\ IF op.taskUrl.given /\ op.taskUrl.valid /\ op.taskUrl.issue # -1
          THEN Posts(requests)[1].body.task
                 = [name |-> op.taskName,
                    externalLink |->
                        [set |-> TRUE, link |-> op.taskUrl,
                         issueId |-> <<IF HostIncludes(op.taskUrl.host, "github.com")
                                       THEN "GitHub" ELSE "GitLab",
                                       " Issue: #", op.taskUrl.issue>>],
                    integration |->
                        [set |-> TRUE, url |-> <<op.taskUrl.scheme, "//">> \o op.taskUrl.host,
                         type |-> IF HostIncludes(op.taskUrl.host, "github.com")
                                  THEN "GitHub" ELSE "GitLab"]]
          ELSE Posts(requests)[1].body.task
                 = [name |-> op.taskName, externalLink |-> NoLink, integration |-> NoIntegration]

Puts(reqs) == SelectSeq(reqs, LAMBDA r : r.method = "PUT")

\* The update leaves everything but endTime of the entry e as it was.
OnlyEndTimeChanged(e, list) ==
    \E i \in 1..Len(list) :
        /\ list[i].id = e.id
        /\ list[i].endTime.set
        /\ list[i].startTime = e.startTime
        /\ list[i].projectId = e.projectId
        /\ list[i].tags = e.tags
        /\ list[i].task.name = e.task.name
        /\ list[i].task.externalLink = e.task.externalLink
        /\ list[i].task.integration = e.task.integration
        /\ e.task.name = "" => list[i].note = e.note

\* C19: the update stopTimer sends targets the id of the active entry it read
\* and carries the entry's startTime unchanged, the new endTime, its project
\* id, its tags, and its task (name, externalLink and integration as read) or,
\* when the task has no name, its note; after the stop the entry differs from
\* what was read in endTime only.
C19_StopChangesOnlyEndTime ==
    (op.name = "stopTimer" /\ Len(Puts(requests)) >= 1)
    => /\ Len(Mutations(requests)) = 1
       /\ readList.ok
       /\ RunningCount(readList.list) >= 1
       /\ \E e \in {FindActive(readList.list)} : \E body \in {Puts(requests)[1].body} :
            /\ Puts(requests)[1].id = e.id
            /\ Puts(requests)[1].resource = "timeentries"
            /\ body.startTime = e.startTime
            /\ body.endTime = LocalEndTime(op.at)
            /\ body.projectId = e.projectId
            /\ body.tags = e.tags
            /\ IF e.task.name # ""
               THEN body.task = e.task /\ body.note = ""
               ELSE body.task = NoTask /\ body.note = e.note
            /\ OutcomeOf(result) = "OK" => OnlyEndTimeChanged(e, entries)

\* A stop of an entry whose task carries an issue link, in the account whose
\* tagged entry has only a note.
C19_Witness ==
    /\ op.name = "stopTimer"
    /\ OutcomeOf(result) = "OK"
    /\ Len(Puts(requests)) = 1
    /\ Puts(requests)[1].body.task.externalLink.set
    /\ Puts(requests)[1].body.task.integration.set
    /\ \E i \in 1..Len(entries) :
         entries[i].note = "Seed note" /\ entries[i].tags = <<"billable">>

\* C20: for a running entry started m whole minutes before now the elapsed
\* field of the timer projection is "{H}h {M}m" with H = floor(m / 60) and
\* M = m mod 60 when H > 0, and "{m}m" otherwise, for every m >= 0, a day and
\* longer included.
C20_ElapsedHoursAndMinutes ==
    (op.name = "getCurrentTimer" /\ OutcomeOf(result) = "OK"
     /\ result.is_running)
    => \E m \in {(op.at - ParseInstant(result.started_at)) \div MsPerMinute} :
         m >= 0
         => IF m \div 60 > 0
            THEN /\ Len(result.elapsed) = 4
                 /\ result.elapsed = <<m \div 60, "h ", m % 60, "m">>
            ELSE /\ Len(result.elapsed) = 2
                 /\ result.elapsed = <<m, "m">>

\* The minutes a GitLab-style duration spells: the number before "h" times
\* sixty plus the number before "m".
SpelledMinutes(text) ==
    IF Len(text) = 4 THEN text[1] * 60 + text[3]
    ELSE IF text[2] = "h" THEN text[1] * 60
    ELSE text[1]

\* C21: for every number of minutes >= 0 formatMinutesToGitLab returns
\* "{H}h{M}m" when H = floor(minutes / 60) and M = minutes mod 60 are both
\* nonzero, "{H}h" when only H is nonzero and "{M}m" otherwise; the hours are
\* never folded into days, and H * 60 + M is the input.
C21_GitLabDuration ==
    (op.name = "formatMinutesToGitLab" /\ op.minutes >= 0)
    => \E H \in {op.minutes \div 60}, M \in {op.minutes % 60} :
         /\ H * 60 + M = op.minutes
         /\ Len(result.time_spent) \in {2, 4}
         /\ SpelledMinutes(result.time_spent) = op.minutes
         /\ (H # 0 /\ M # 0)
              => (Len(result.time_spent) = 4 /\ result.time_spent = <<H, "h", M, "m">>)
         /\ (H # 0 /\ M = 0)
              => (Len(result.time_spent) = 2 /\ result.time_spent = <<H, "h">>)
         /\ H = 0 => (Len(result.time_spent) = 2 /\ result.time_spent = <<M, "m">>)

\* 1441 minutes are spelt 24h1m.
C21_Witness ==
    /\ op.name = "formatMinutesToGitLab"
    /\ op.minutes = 1441
    /\ result.time_spent = <<24, "h", 1, "m">>

\* C22: on a successful stop time_spent_minutes is the whole minutes from the
\* entry's startTime to the endTime written to the service, which is the
\* current instant, for either timezone offset and a startTime with or without
\* the UTC suffix; time_spent spells that same number, and started_at and
\* ended_at are the startTime and endTime of the update.
C22_StopDuration ==
    (op.name = "stopTimer" /\ OutcomeOf(result) = "OK")
    => \E body \in {Puts(requests)[1].body} :
         \E start \in {IF body.startTime.utc THEN body.startTime.wall
                        ELSE body.startTime.wall + tz * MsPerMinute} :
            /\ ParseInstant(body.endTime) = op.at
            /\ ~body.endTime.utc
            /\ result.time_spent_minutes = (op.at - start) \div MsPerMinute
            /\ result.time_spent_minutes * MsPerMinute <= op.at - start
            /\ op.at - start < (result.time_spent_minutes + 1) * MsPerMinute
            /\ result.time_spent_minutes >= 0
                 => SpelledMinutes(result.time_spent) = result.time_spent_minutes
            /\ result.time_spent = formatMinutesToGitLab(result.time_spent_minutes)
            /\ result.started_at = body.startTime
            /\ result.ended_at = body.endTime

\* A stop, east of Greenwich, of the entry whose startTime carries the suffix:
\* ninety and a half minutes and some seconds make ninety minutes, 1h30m.
C22_Witness ==
    /\ op.name = "stopTimer"
    /\ OutcomeOf(result) = "OK"
    /\ tz = -120
    /\ result.started_at.utc
    /\ result.time_spent_minutes = 90
    /\ result.time_spent = <<1, "h", 30, "m">>

\* C23: the delete_time_entry tool invoked without a mode, the argument bag
\* empty or absent, behaves exactly as with mode "current": it answers what
\* deleteTimeEntry('current') answers on the same read, deletes only the
\* running entry, and answers NO_TIMER_RUNNING when none is running.
C23_NoModeMeansCurrent ==
    (op.name = "delete_time_entry" /\ "mode" \notin DOMAIN op.args)
    => /\ OutcomeOf(result) \in {"OK", "NO_TIMER_RUNNING", "API_ERROR"}
       /\ ~response.isError
       /\ response.content = Stringify(result)
       /\ (OutcomeOf(result) = "NO_TIMER_RUNNING")
            = (readList.ok /\ RunningCount(readList.list) = 0)
       /\ (readList.ok /\ RunningCount(readList.list) > 0)
            => \E e \in {FindActive(readList.list)} :
                 /\ DeleteIssued(e.id)
                 /\ DeletesOnly(e.id)
                 /\ op.fail = "none"
                      => result = [success |-> TRUE, deleted |-> e.id,
                                   entry_type |-> "active", stopped_ago |-> <<>>]

\* C24: deleteTimeEntry('last') whose read of today's entries returns an empty
\* list returns success false with error NO_ENTRIES_FOUND and issues no DELETE.
C24_NoEntriesFound ==
    (op.name = "deleteTimeEntry" /\ op.mode = "last" /\ readList.ok
     /\ Len(readList.list) = 0)
    => /\ result = [success |-> FALSE, error |-> "NO_ENTRIES_FOUND",
                    message |-> <<"No time entries found for today">>]
       /\ NoRequest("DELETE")
       /\ Len(Mutations(requests)) = 0
       /\ ~response.isError
       /\ response.content = result

\* The read answered, and with an empty list.
C24_Witness ==
    /\ op.name = "deleteTimeEntry"
    /\ op.mode = "last"
    /\ op.fail = "none"
    /\ readList.ok
    /\ Len(readList.list) = 0
    /\ Len(TodayReads(requests)) = 1
    /\ OutcomeOf(result) = "NO_ENTRIES_FOUND"

Failed(res) == OutcomeOf(res) \in {"API_ERROR", "THROWN"}

\* C25: a failed account resolution fails only the operation that triggered
\* it: that operation issues nothing but the profile read and changes nothing,
\* accountId stays unset and the call is answered; the next operation reads
\* the profile again and, when its calls succeed, resolves the account and
\* proceeds as on a fresh client.
C25_FailedResolutionRetried ==
    [][/\ (op' # op /\ op'.fail = "user")
          => /\ accountId = NoAccount
             /\ accountId' = NoAccount
             /\ Failed(result')
             /\ Len(requests') >= 1
             /\ \A i \in 1..Len(requests') : requests'[i].resource = "user"
             /\ entries' = entries
             /\ response'.content.success = FALSE
       /\ (op' # op /\ op.fail = "user")
          => /\ Len(UserReads(requests')) >= 1
             /\ requests'[1].resource = "user"
             /\ op'.fail = "none"
                  => /\ accountId' = ServiceAccount
                     /\ ~Failed(result')
                     /\ Len(requests') > Len(UserReads(requests'))
                     /\ \A i \in 1..Len(requests') :
                          requests'[i].resource # "user"
                          => requests'[i].acc = ServiceAccount]_vars

\* A start that succeeded right after an operation that failed at the resolution.
C25_Witness ==
    /\ prev.stage = "unresolved"
    /\ op.name = "startTimer"
    /\ op.fail = "none"
    /\ accountId = ServiceAccount
    /\ Len(UserReads(requests)) = 1
    /\ OutcomeOf(result) = "OK"

Returned(p) == procs[p].pc = "done"

\* C26: two invocations that overlap on a client with accountId unset may both
\* read the profile; under every interleaving each account-scoped request is
\* sent with the service's account id, accountId is never anything but unset
\* or that id, and once an invocation has resolved it, it stays that id.
C26_OverlappingResolution ==
    /\ accountId \in {NoAccount, ServiceAccount}
    /\ \A p \in Procs :
         /\ \A i \in 1..Len(procs[p].reqs) :
              procs[p].reqs[i].resource # "user" => procs[p].reqs[i].acc = ServiceAccount
         /\ procs[p].pc \in {"read", "write"} => accountId = ServiceAccount
         /\ (\E i \in 1..Len(procs[p].answers) :
                procs[p].reqs[i].resource = "user" /\ procs[p].answers[i] = "none")
              => accountId = ServiceAccount
    /\ (\A p \in Procs : Returned(p))
         => (accountId = ServiceAccount) = (\E p \in Procs : procs[p].fail # "user")

\* Both invocations read the profile, both went on to read today's entries.
C26_Witness ==
    /\ \A p \in Procs :
         /\ Returned(p)
         /\ Len(procs[p].reqs) >= 2
         /\ procs[p].reqs[1].resource = "user"
         /\ procs[p].reqs[2].acc = ServiceAccount
    /\ accountId = ServiceAccount

\* C27: startTimer fails closed: it issues a create request only after, in the
\* same invocation, a read of today's entries answered and held no entry with
\* endTime null; when the account resolution or that read fails it creates no
\* entry.
C27_StartFailsClosed ==
    [][(op' # op /\ op'.name = "startTimer")
       => /\ Len(Posts(requests')) >= 1
             => /\ readList'.ok
                /\ RunningCount(readList'.list) = 0
                /\ \E i \in 1..Len(requests') :
                     /\ requests'[i].method = "GET"
                     /\ requests'[i].resource = "timeentries"
                     /\ op'.answers[i] = "none"
                     /\ \A j \in 1..Len(requests') : requests'[j].method = "POST" => i < j
          /\ (op'.fail \in {"user", "userEmpty", "read"} \/ ~readList'.ok)
             => /\ Len(Posts(requests')) = 0
                /\ entries' = entries
                /\ nextId' = nextId
                /\ OutcomeOf(result') = "API_ERROR"]_vars

\* A start whose read of today's entries failed after the account was
\* resolved, on an account with nothing running.
C27_Witness ==
    /\ op.name = "startTimer"
    /\ op.fail = "read"
    /\ accountId = ServiceAccount
    /\ RunningCount(entries) = 0
    /\ Len(Posts(requests)) = 0
    /\ OutcomeOf(result) = "API_ERROR"

\* The invocations that act on the active entry.
OnActive(o) ==
    \/ o.name \in {"getCurrentTimer", "stopTimer"}
    \/ o.name = "deleteTimeEntry" /\ o.mode = "current"

\* The id of the entry an invocation reported, stopped or deleted.
Selected(o, res, reqs) ==
    IF o.name = "getCurrentTimer" THEN res.timer_id
    ELSE Mutations(reqs)[1].id

\* The position of the first entry with endTime null.
FirstRunning(list) ==
    CHOOSE i \in 1..Len(list) : IsRunning(list[i]) /\ \A j \in 1..(i - 1) : ~IsRunning(list[j])

\* C28: when today's list holds several entries with endTime null,
\* getCurrentTimer, stopTimer and deleteTimeEntry('current') all select the
\* first of them in the order the service returned; so on an unchanged list the
\* timer reported, the timer stopped and the timer deleted have the same id.
C28_FirstRunningSelected ==
    [][(op' # op /\ OnActive(op') /\ readList'.ok /\ RunningCount(readList'.list) >= 1)
       => /\ OutcomeOf(result') = "OK"
          /\ Selected(op', result', requests')
               = readList'.list[FirstRunning(readList'.list)].id
          /\ (OnActive(op) /\ readList.ok /\ readList'.list = readList.list
              /\ OutcomeOf(result) = "OK")
             => Selected(op', result', requests') = Selected(op, result, requests)]_vars

\* Two running entries listed after a stopped one: the timer reported by
\* getCurrentTimer is the first of the two.
C28_Witness ==
    /\ op.name = "getCurrentTimer"
    /\ readList.ok
    /\ RunningCount(readList.list) >= 2
    /\ ~IsRunning(readList.list[1])
    /\ result.timer_id = readList.list[2].id

\* C29: in sequential use by a single client, with every new entry stamped by
\* the service with the instant of its creation, a running timer is the most
\* recently started of today's entries: deleteTimeEntry('last') and
\* deleteTimeEntry('current') then delete the same entry, the running one, and
\* both report entry_type "active".
C29_RunningIsLatest ==
    /\ readList.ok
       => \A i \in 1..Len(readList.list) :
            IsRunning(readList.list[i])
            => \A j \in 1..Len(readList.list) :
                 ParseInstant(readList.list[j].startTime)
                   <= ParseInstant(readList.list[i].startTime)
    /\ (op.name = "deleteTimeEntry" /\ readList.ok /\ RunningCount(readList.list) >= 1)
       => /\ OutcomeOf(result) = "OK"
          /\ result.entry_type = "active"
          /\ result.deleted = FindActive(readList.list).id
          /\ \E e \in LatestStarted(readList.list) : result.deleted = e.id

\* A remote call that failed: no answer, or a refusal.
CallFailed(req, answer) ==
    \/ answer \in {"user", "read", "write", "writeLost"}
    \/ answer = "userEmpty" /\ req.resource # "user"

\* The method of the one mutating request an operation may issue.
MutatingMethod(name) ==
    CASE name = "startTimer" -> "POST"
      [] name = "stopTimer" -> "PUT"
      [] name \in {"deleteTimeEntry", "delete_time_entry"} -> "DELETE"
      [] OTHER -> "none"

\* C30: an invocation of startTimer, stopTimer or deleteTimeEntry issues at
\* most one mutating request (a POST, a PUT, a DELETE) and issues nothing
\* after a call of it has failed; one that ends in TIMER_ALREADY_RUNNING,
\* NO_TIMER_RUNNING, NO_ENTRIES_FOUND, ENTRY_TOO_OLD, INVALID_MODE or on a
\* failed read has issued none; getCurrentTimer and listProjects never do.
C30_AtMostOneMutation ==
    /\ Len(Mutations(requests)) <= 1
    /\ \A i \in 1..Len(requests) :
         requests[i].method # "GET" => requests[i].method = MutatingMethod(op.name)
    /\ OutcomeOf(result) \in {"TIMER_ALREADY_RUNNING", "NO_TIMER_RUNNING", "NO_ENTRIES_FOUND",
                              "ENTRY_TOO_OLD", "INVALID_MODE"}
         => Len(Mutations(requests)) = 0
    /\ op.fail \in {"user", "userEmpty", "read"} => Len(Mutations(requests)) = 0
    /\ op.name \in {"getCurrentTimer", "listProjects"} => Len(Mutations(requests)) = 0
    /\ Len(op.answers) = Len(requests)
    /\ \A i \in 1..Len(requests) :
         CallFailed(requests[i], op.answers[i]) => i = Len(requests)
    /\ (op.fail # "none" /\ Failed(result))
         => /\ Len(requests) >= 1
            /\ op.fail \in {"write", "writeLost"}
                 => requests[Len(requests)].method = MutatingMethod(op.name)
            /\ op.fail \in {"userEmpty", "read"}
                 => (requests[Len(requests)].method = "GET"
                     /\ requests[Len(requests)].resource # "user")
            /\ op.fail = "user" => requests[Len(requests)].resource = "user"

\* A stop whose update failed: the PUT was issued once and nothing after it.
C30_Witness ==
    /\ op.name = "stopTimer"
    /\ op.fail = "write"
    /\ OutcomeOf(result) = "API_ERROR"
    /\ Len(Mutations(requests)) = 1
    /\ requests[Len(requests)].method = "PUT"

====
